---------------------------- MODULE Spec2Model ----------------------------
(***************************************************************************)
(* A model of the TriFinger reach environment (TriFingerReach) and of the  *)
(* collision objects of trifinger_simulation.                              *)
(*                                                                         *)
(* Python floats are IEEE-754 binary64 values.  They are modelled bit for  *)
(* bit (sign, 53-bit significand, exponent; round to nearest, ties to      *)
(* even) on natural numbers of arbitrary size, kept as little-endian       *)
(* sequences of 15-bit limbs.  Subnormals, infinities and NaN are outside  *)
(* the range the model's inputs can produce and are not modelled; the      *)
(* sign of zero is not kept.                                               *)
(***************************************************************************)
EXTENDS Integers, Sequences, FiniteSets, TLC

Max(a, b) == IF a >= b THEN a ELSE b
Min(a, b) == IF a <= b THEN a ELSE b

(***************************************************************************)
(* Natural numbers of arbitrary size: <<l1, l2, ...>> is the number        *)
(* l1 + l2*Base + ..., no leading zero limb, zero is <<>>.                 *)
(***************************************************************************)
LimbBits == 3 * 5
Base == 2 ^ LimbBits

RECURSIVE BTrim(_)
BTrim(a) ==
    IF a = <<>> THEN <<>>
    ELSE IF a[Len(a)] = 0 THEN BTrim(SubSeq(a, 1, Len(a) - 1))
    ELSE a

RECURSIVE BFromInt(_)
BFromInt(n) == IF n = 0 THEN <<>> ELSE <<n % Base>> \o BFromInt(n \div Base)

RECURSIVE BToInt(_)
BToInt(a) == IF a = <<>> THEN 0 ELSE a[1] + Base * BToInt(Tail(a))

Limb(a, i) == IF i >= 1 /\ i <= Len(a) THEN a[i] ELSE 0

RECURSIVE BAddC(_, _, _, _)
BAddC(a, b, i, carry) ==
    IF i > Len(a) /\ i > Len(b)
    THEN (IF carry = 0 THEN <<>> ELSE <<carry>>)
    ELSE LET t == Limb(a, i) + Limb(b, i) + carry
         IN  <<t % Base>> \o BAddC(a, b, i + 1, t \div Base)

BAdd(a, b) == BAddC(a, b, 1, 0)

\* a - b, for a >= b
RECURSIVE BSubC(_, _, _, _)
BSubC(a, b, i, borrow) ==
    IF i > Len(a) THEN <<>>
    ELSE LET t == Limb(a, i) - Limb(b, i) - borrow
         IN  IF t < 0 THEN <<t + Base>> \o BSubC(a, b, i + 1, 1)
                      ELSE <<t>> \o BSubC(a, b, i + 1, 0)

BSub(a, b) == BTrim(BSubC(a, b, 1, 0))

RECURSIVE BCmpFrom(_, _, _)
BCmpFrom(a, b, i) ==
    IF i = 0 THEN 0
    ELSE IF a[i] > b[i] THEN 1
    ELSE IF a[i] < b[i] THEN -1
    ELSE BCmpFrom(a, b, i - 1)

\* -1, 0, 1 as a < b, a = b, a > b
BCmp(a, b) ==
    IF Len(a) > Len(b) THEN 1
    ELSE IF Len(a) < Len(b) THEN -1
    ELSE BCmpFrom(a, b, Len(a))

\* a * k for 0 <= k < Base
RECURSIVE BMulSmallC(_, _, _, _)
BMulSmallC(a, k, i, carry) ==
    IF i > Len(a)
    THEN (IF carry = 0 THEN <<>> ELSE <<carry>>)
    ELSE LET t == a[i] * k + carry
         IN  <<t % Base>> \o BMulSmallC(a, k, i + 1, t \div Base)

BMulSmall(a, k) == IF k = 0 THEN <<>> ELSE BMulSmallC(a, k, 1, 0)

BShiftLimbs(a, q) == IF a = <<>> THEN <<>> ELSE [i \in 1..q |-> 0] \o a

RECURSIVE BMulFrom(_, _, _)
BMulFrom(a, b, j) ==
    IF j > Len(b) THEN <<>>
    ELSE BAdd(BShiftLimbs(BMulSmall(a, b[j]), j - 1), BMulFrom(a, b, j + 1))

BMul(a, b) == BMulFrom(a, b, 1)

\* a * 2^n
BShl(a, n) == BShiftLimbs(BMulSmall(a, 2 ^ (n % LimbBits)), n \div LimbBits)

\* floor(a / 2^n)
BShr(a, n) ==
    LET q == n \div LimbBits
        r == n % LimbBits
    IN  IF q >= Len(a) THEN <<>>
        ELSE BTrim([i \in 1..(Len(a) - q) |->
                      (a[i + q] \div (2 ^ r))
                      + (Limb(a, i + q + 1) % (2 ^ r)) * (2 ^ (LimbBits - r))])

\* a mod 2^n is not zero
BLowNonzero(a, n) ==
    LET q == n \div LimbBits
        r == n % LimbBits
    IN  \/ \E i \in 1..Min(q, Len(a)) : a[i] # 0
        \/ Limb(a, q + 1) % (2 ^ r) # 0

\* bit n (bit 0 is the lowest) of a
BBit(a, n) == (Limb(a, (n \div LimbBits) + 1) \div (2 ^ (n % LimbBits))) % 2

RECURSIVE IntBitLen(_)
IntBitLen(x) == IF x = 0 THEN 0 ELSE 1 + IntBitLen(x \div 2)

BBitLen(a) ==
    IF a = <<>> THEN 0 ELSE LimbBits * (Len(a) - 1) + IntBitLen(a[Len(a)])

BIsOdd(a) == Limb(a, 1) % 2 = 1

(***************************************************************************)
(* binary64.  [s, m, e] is (-1)^s * m * 2^e with 2^52 <= m < 2^53, or zero.*)
(***************************************************************************)
Precision == 52 + 1

FZero == [s |-> 0, m |-> <<>>, e |-> 0]

FIsZero(a) == a.m = <<>>

\* [s, m, e] for a significand k1 of Precision or Precision + 1 bits
FNormal(s, k1, E) ==
    IF BBitLen(k1) > Precision
    THEN [s |-> s, m |-> BShr(k1, 1), e |-> E + 1]
    ELSE [s |-> s, m |-> k1, e |-> E]

\* rounding to nearest, ties to even: kept is the significand cut to
\* Precision bits, guard the first bit cut off, st whether a later one is set
FRoundKept(s, kept, E, guard, st) ==
    FNormal(s, IF guard /\ (st \/ BIsOdd(kept)) THEN BAdd(kept, <<1>>) ELSE kept, E)

\* FRoundTo for M of L bits, L > 0
FRoundBits(s, M, E, sticky, L) ==
    IF L <= Precision
    THEN [s |-> s, m |-> BShl(M, Precision - L), e |-> E - (Precision - L)]
    ELSE FRoundKept(s, BShr(M, L - Precision), E + (L - Precision),
                    BBit(M, L - Precision - 1) = 1,
                    sticky \/ BLowNonzero(M, L - Precision - 1))

\* the binary64 nearest to (-1)^s * (M + sticky) * 2^E, ties to even;
\* sticky stands for a nonzero amount below the last bit of M
FRoundTo(s, M, E, sticky) ==
    IF M = <<>> THEN FZero ELSE FRoundBits(s, M, E, sticky, BBitLen(M))

FromInt(n) ==
    FRoundTo(IF n >= 0 THEN 0 ELSE 1, BFromInt(IF n >= 0 THEN n ELSE -n), 0,
             FALSE)

FNeg(a) == IF FIsZero(a) THEN a ELSE [a EXCEPT !.s = 1 - a.s]

FAbs(a) == [a EXCEPT !.s = 0]

\* -1, 0, 1 as |a| < |b|, |a| = |b|, |a| > |b|
FCmpMag(a, b) ==
    IF FIsZero(a) /\ FIsZero(b) THEN 0
    ELSE IF FIsZero(a) THEN -1
    ELSE IF FIsZero(b) THEN 1
    ELSE IF a.e > b.e THEN 1
    ELSE IF a.e < b.e THEN -1
    ELSE BCmp(a.m, b.m)

\* -1, 0, 1 for a negative, zero, positive
FSign(a) == IF FIsZero(a) THEN 0 ELSE 1 - 2 * a.s

\* -1, 0, 1 as a < b, a = b, a > b
FCmp(a, b) ==
    IF FSign(a) # FSign(b) THEN (IF FSign(a) > FSign(b) THEN 1 ELSE -1)
    ELSE FCmpMag(IF FSign(a) >= 0 THEN a ELSE b, IF FSign(a) >= 0 THEN b ELSE a)

FLe(a, b) == FCmp(a, b) <= 0
FLt(a, b) == FCmp(a, b) < 0

\* the sum of (-1)^sa * Ma * 2^e and (-1)^sb * Mb * 2^e; c is BCmp(Ma, Mb)
FAddAligned(sa, Ma, sb, Mb, e, c) ==
    IF sa # sb /\ c = 0 THEN FZero
    ELSE FRoundTo(IF sa = sb \/ c > 0 THEN sa ELSE sb,
                  IF sa = sb THEN BAdd(Ma, Mb)
                  ELSE IF c > 0 THEN BSub(Ma, Mb) ELSE BSub(Mb, Ma),
                  e, FALSE)

\* FAdd for nonzero a and b, their significands brought to one exponent
FAddShifted(a, Ma, b, Mb) ==
    FAddAligned(a.s, Ma, b.s, Mb, Min(a.e, b.e), BCmp(Ma, Mb))

FAdd(a, b) ==
    IF FIsZero(a) THEN b
    ELSE IF FIsZero(b) THEN a
    ELSE FAddShifted(a, BShl(a.m, a.e - Min(a.e, b.e)),
                     b, BShl(b.m, b.e - Min(a.e, b.e)))

FSub(a, b) == FAdd(a, FNeg(b))

FMul(a, b) ==
    IF FIsZero(a) \/ FIsZero(b) THEN FZero
    ELSE FRoundTo((a.s + b.s) % 2, BMul(a.m, b.m), a.e + b.e, FALSE)

\* the quotient bits of r / d below the binary point, n of them, appended to q;
\* the result is <<quotient, remainder>>
RECURSIVE BLongDiv(_, _, _, _)
BLongDiv(q, r, d, n) ==
    IF n = 0 THEN <<q, r>>
    ELSE IF Len(q) >= 0 /\ BCmp(BMulSmall(r, 2), d) >= 0
    THEN BLongDiv(BAdd(BMulSmall(q, 2), <<1>>), BSub(BMulSmall(r, 2), d), d,
                  n - 1)
    ELSE BLongDiv(BMulSmall(q, 2), BMulSmall(r, 2), d, n - 1)

QuotientBits == Precision + 2

\* the binary64 nearest to the quotient qr[1] with remainder qr[2]
FDivRound(s, qr, E) == FRoundTo(s, qr[1], E, qr[2] # <<>>)

\* a / b for b # 0
FDiv(a, b) ==
    IF FIsZero(a) THEN FZero
    ELSE FDivRound((a.s + b.s) % 2,
                   BLongDiv(IF BCmp(a.m, b.m) >= 0 THEN <<1>> ELSE <<>>,
                            IF BCmp(a.m, b.m) >= 0 THEN BSub(a.m, b.m) ELSE a.m,
                            b.m, QuotientBits),
                   a.e - b.e - QuotientBits)

Signed(s, mag) == IF s = 0 THEN mag ELSE -mag

\* int(x): truncation towards zero
FTrunc(a) ==
    IF FIsZero(a) THEN 0
    ELSE Signed(a.s, BToInt(IF a.e >= 0 THEN BShl(a.m, a.e)
                            ELSE BShr(a.m, -a.e)))

\* fl or fl + 1, the one nearest to fl + (guard + st) / 2, ties to the even one
HalfEven(fl, guard, st) ==
    IF guard /\ (st \/ fl % 2 = 1) THEN fl + 1 ELSE fl

\* round(x) of Python 3: the nearest integer, ties to the even one
FRound(a) ==
    IF FIsZero(a) THEN 0
    ELSE IF a.e >= 0 THEN FTrunc(a)
    ELSE Signed(a.s, HalfEven(BToInt(BShr(a.m, -a.e)),
                              BBit(a.m, -a.e - 1) = 1,
                              BLowNonzero(a.m, -a.e - 1)))

\* the float literal p/q written in decimal (the double nearest to p/q)
Dec(p, q) == FDiv(FromInt(p), FromInt(q))


(***************************************************************************)
(* Values that may be unset: None is <<>>, a set value x is <<x>>.         *)
(***************************************************************************)
None == <<>>
Some(x) == <<x>>
Val(o) == o[1]

VARIABLES
    env,        \* the TriFingerReach object of each process
    now,        \* the wall clock, in seconds
    connected,  \* pybullet: which physics clients are connected
    objects,    \* the collision objects
    lastDel     \* what the last __del__ of a collision object did

vars == <<env, now, connected, objects, lastDel>>

(***************************************************************************)
(* Collaborators outside these files.                                     *)
(***************************************************************************)
\* finger.kinematics.forward_kinematics: joint position -> tip position
forward_kinematics(q) == 2 * q + 1

\* utils.compute_distance: the Euclidean distance, here in one dimension
compute_distance(a, b) == IF a >= b THEN a - b ELSE b - a

\* utils.sleep_until(t) returns once the clock has reached t
sleep_until(clock, t) == clock >= t

\* one call made on a collaborator by the handler that ran last
Call(op, arg, ret) == [op |-> op, arg |-> arg, ret |-> ret]

NoLast == [op |-> "none", raised |-> "", calls |-> <<>>, ret |-> None]

\* what is remembered of a process's past to state the properties (no
\* attribute of the object): the clock at construction, the number of reset()
\* calls, the step() calls of this episode, the target the preceding step()
\* commanded, the inputs of the last call, whether the clock had reached
\* next_start_time when the last reset() went on, and the attributes before it
NoHistory ==
    [born |-> None, resets |-> 0, steps_in_episode |-> 0, prev_target |-> None,
     target |-> None, action |-> None, obs |-> <<>>, freeze |-> "",
     slept |-> TRUE, before |-> None]

(***************************************************************************)
(* TriFingerReach                                                          *)
(***************************************************************************)
\* the object before __init__ has assigned anything
NewEnv ==
    [pc |-> "new", error |-> "",
     control_rate_s |-> None, time_step_s |-> None,
     steps_per_control |-> None,
     smoothing_params |-> None,
     smoothing_start_episode |-> None, smoothing_stop_episode |-> None,
     smoothing_alpha |-> None, smoothing_increase_step |-> None,
     smoothed_action |-> None, episode_count |-> None,
     synchronize |-> None, next_start_time |-> None,
     observation |-> None, goal |-> None,
     t |-> 0, in_init |-> FALSE,
     last |-> NoLast, h |-> NoHistory]

Fail(e, what) ==
    [e EXCEPT !.pc = "failed", !.error = what, !.in_init = FALSE]

Tolerance == Dec(1, 1000000)

\* the control rate with the ratio taken the wrong way round
SetupControlRate_inverted(e, control_rate_s, time_step_s) ==
    LET spc == IF FIsZero(control_rate_s) THEN 0
               ELSE FRound(FDiv(time_step_s, control_rate_s))
        e1 == [e EXCEPT !.control_rate_s = Some(control_rate_s),
                        !.time_step_s = Some(time_step_s),
                        !.steps_per_control = Some(spc)]
    IN  IF FLe(FAbs(FSub(control_rate_s, FMul(FromInt(spc), time_step_s))),
               Tolerance)
        THEN e1
        ELSE Fail(e1, "AssertionError")

\* the control rate with the assertion written without abs()
SetupControlRate_no_abs(e, control_rate_s, time_step_s) ==
    LET spc == FRound(FDiv(control_rate_s, time_step_s))
        e1 == [e EXCEPT !.control_rate_s = Some(control_rate_s),
                        !.time_step_s = Some(time_step_s),
                        !.steps_per_control = Some(spc)]
    IN  IF FLe(FSub(control_rate_s, FMul(FromInt(spc), time_step_s)), Tolerance)
        THEN e1
        ELSE Fail(e1, "AssertionError")

\* __init__, the assertion on steps_per_control
AssertControlRate(e, control_rate_s, time_step_s, steps_per_control) ==
    IF FLe(FAbs(FSub(control_rate_s,
                     FMul(FromInt(steps_per_control), time_step_s))),
           Tolerance)
    THEN e
    ELSE Fail(e, "AssertionError")

\* __init__, the control rate, for the steps_per_control computed
SetControlRate(e, control_rate_s, time_step_s, steps_per_control) ==
    AssertControlRate([e EXCEPT !.control_rate_s = Some(control_rate_s),
                                !.time_step_s = Some(time_step_s),
                                !.steps_per_control = Some(steps_per_control)],
                      control_rate_s, time_step_s, steps_per_control)

\* __init__, the control rate: steps_per_control and its assertion
SetupControlRate(e, control_rate_s, time_step_s) ==
    SetControlRate(e, control_rate_s, time_step_s,
                   FRound(FDiv(control_rate_s, time_step_s)))

Finite(n) == [inf |-> FALSE, n |-> n]
Infinite == [inf |-> TRUE, n |-> 0]

\* __init__, "sets up smoothing" without is_test, for the start and stop
\* episodes computed; then the episode state
SetSmoothingSchedule(e, sp, start, stop) ==
    IF stop - start = 0
    THEN Fail([e EXCEPT !.smoothing_params = Some(sp),
                        !.smoothing_stop_episode = Some(Finite(stop)),
                        !.smoothing_start_episode = Some(start),
                        !.smoothing_alpha = Some(FZero)],
              "ZeroDivisionError")
    ELSE [e EXCEPT !.smoothing_params = Some(sp),
                   !.smoothing_stop_episode = Some(Finite(stop)),
                   !.smoothing_start_episode = Some(start),
                   !.smoothing_alpha = Some(FZero),
                   !.smoothing_increase_step =
                       Some(FDiv(sp.final_alpha, FromInt(stop - start))),
                   !.smoothed_action = None,
                   !.episode_count = Some(0)]

\* __init__, "sets up smoothing", then the episode state (skipped when an
\* exception has left __init__)
SetupSmoothing(e, sp) ==
    IF e.pc = "failed" THEN e
    ELSE IF sp.is_test
    THEN [e EXCEPT !.smoothing_params = Some(sp),
                   !.smoothing_start_episode = Some(0),
                   !.smoothing_alpha = Some(sp.final_alpha),
                   !.smoothing_increase_step = Some(FZero),
                   !.smoothing_stop_episode = Some(Infinite),
                   !.smoothed_action = None,
                   !.episode_count = Some(0)]
    ELSE SetSmoothingSchedule(
             e, sp,
             FTrunc(FMul(FromInt(sp.num_episodes), sp.start_after)),
             FTrunc(FMul(FromInt(sp.num_episodes), sp.stop_after)))

MinutesPerHour == 60
SecondsPerMinute == 60

\* __init__, "set up synchronization": the start of the minute after `clock`
\* (skipped when an exception has left __init__)
SetupSynchronization(e, synchronize, clock) ==
    IF e.pc = "failed" THEN e
    ELSE IF ~synchronize THEN [e EXCEPT !.synchronize = Some(FALSE)]
    ELSE IF ((clock \div SecondsPerMinute) % MinutesPerHour) + 1
                > MinutesPerHour - 1
    THEN Fail([e EXCEPT !.synchronize = Some(TRUE)], "ValueError")
    ELSE [e EXCEPT !.synchronize = Some(TRUE),
                   !.next_start_time =
                       Some(((clock \div SecondsPerMinute) + 1)
                            * SecondsPerMinute)]

\* update_smoothing
update_smoothing(e) ==
    LET stop == Val(e.smoothing_stop_episode)
    IN  IF /\ Val(e.smoothing_start_episode) <= Val(e.episode_count)
           /\ (stop.inf \/ Val(e.episode_count) < stop.n)
        THEN [e EXCEPT !.smoothing_alpha =
                Some(FAdd(Val(e.smoothing_alpha), Val(e.smoothing_increase_step)))]
        ELSE e

\* _get_state: the observation handed to the agent, before scaling
get_state(e, position, action) ==
    [joint_positions |-> position,
     goal_position |-> Val(e.goal),
     action_joint_positions |-> action]

SyncPeriod == 4

\* the freeze-in-place step of reset: the calls it makes on the robot proxy,
\* the proxy's time index after it and the exception it ends with ("" when it
\* ends normally).  freeze says where the robot proxy raises: "append", "get"
\* or "ok"; with self.observation unset the attribute lookup raises
freeze_in_place(e, freeze) ==
    LET hold == Call("append_desired_action", e.observation, Some(e.t + 1))
    IN  IF e.observation = None
        THEN [calls |-> <<>>, t |-> e.t, raised |-> "AttributeError"]
        ELSE IF freeze = "append"
        THEN [calls |-> <<[hold EXCEPT !.ret = None]>>, t |-> e.t,
              raised |-> "RuntimeError"]
        ELSE IF freeze = "get"
        THEN [calls |-> <<hold, Call("get_observation", Some(e.t + 1), None)>>,
              t |-> e.t + 1, raised |-> "RuntimeError"]
        ELSE [calls |-> <<hold, Call("get_observation", Some(e.t + 1),
                                     e.observation)>>,
              t |-> e.t + 1, raised |-> ""]

\* the start of reset without its try/except: a failure of the freeze-in-place
\* step leaves reset
reset_freeze_unguarded(e, freeze) ==
    LET frozen == freeze_in_place(e, freeze)
    IN  IF e.next_start_time = None
        THEN [e EXCEPT !.last = [NoLast EXCEPT !.op = "reset"]]
        ELSE IF frozen.raised # ""
        THEN [e EXCEPT !.t = frozen.t,
                       !.last = [NoLast EXCEPT !.op = "reset",
                                               !.raised = frozen.raised,
                                               !.calls = frozen.calls]]
        ELSE [e EXCEPT
                !.t = frozen.t,
                !.pc = "sleeping",
                !.last = [NoLast EXCEPT
                            !.op = "reset",
                            !.calls = frozen.calls \o
                                <<Call("sleep_until", e.next_start_time, None)>>]]

\* reset, the freeze-in-place step done: the failure is passed over and
\* utils.sleep_until is called, in which the process then waits
SwallowAndSleep(e, frozen) ==
    [e EXCEPT !.t = frozen.t,
              !.pc = "sleeping",
              !.last = [NoLast EXCEPT
                          !.op = "reset",
                          !.calls = frozen.calls \o
                              <<Call("sleep_until", e.next_start_time, None)>>]]

\* reset, "synchronize episode starts with wall time", up to the call of
\* utils.sleep_until
reset_freeze(e, freeze) ==
    IF e.next_start_time = None
    THEN [e EXCEPT !.last = [NoLast EXCEPT !.op = "reset"]]
    ELSE SwallowAndSleep(e, freeze_in_place(e, freeze))

\* the rest of reset without "self.smoothed_action = None"
reset_finish_keeping_smoothed_action(e, rin, clock) ==
    LET e1 == IF e.next_start_time = None THEN e
              ELSE [e EXCEPT !.next_start_time = Some(Val(@) + SyncPeriod)]
        e2 == update_smoothing(e1)
        e3 == [e2 EXCEPT !.episode_count = Some(Val(@) + 1),
                         !.goal = Some(forward_kinematics(rin.goal_joint))]
    IN  [e3 EXCEPT !.last.ret = Some(get_state(e3, rin.start, rin.start))]

\* the rest of reset with the next start time counted from the clock
reset_finish_from_now(e, rin, clock) ==
    LET e1 == IF e.next_start_time = None THEN e
              ELSE [e EXCEPT !.next_start_time = Some(clock + SyncPeriod)]
        e2 == update_smoothing(e1)
        e3 == [e2 EXCEPT !.episode_count = Some(Val(@) + 1),
                         !.smoothed_action = None,
                         !.goal = Some(forward_kinematics(rin.goal_joint))]
    IN  [e3 EXCEPT !.last.ret = Some(get_state(e3, rin.start, rin.start))]

\* reset, after utils.sleep_until: the next start time
advance_start_time(e) ==
    IF e.next_start_time = None THEN e
    ELSE [e EXCEPT !.next_start_time = Some(Val(@) + SyncPeriod)]

\* reset, its return: the state of the finger at `position`
return_state(e, position) ==
    [e EXCEPT !.last.ret = Some(get_state(e, position, position))]

\* reset, from the return of utils.sleep_until (or from the start, without
\* synchronization) to its end.  rin holds what the collaborators sample: the
\* joint position the finger is reset to and the one the goal is computed from;
\* clock is the wall clock, which reset does not read
reset_finish(e, rin, clock) ==
    return_state([update_smoothing(advance_start_time(e)) EXCEPT
                      !.episode_count = Some(Val(@) + 1),
                      !.smoothed_action = None,
                      !.goal = Some(forward_kinematics(rin.goal_joint))],
                 rin.start)

\* the attributes a handler starts from, for the history
Snapshot(e) ==
    [smoothing_alpha |-> e.smoothing_alpha,
     episode_count |-> e.episode_count,
     next_start_time |-> e.next_start_time,
     smoothed_action |-> e.smoothed_action,
     observation |-> e.observation,
     t |-> e.t]

\* how the freeze-in-place step of a reset() entered from e with this robot
\* behaviour goes
FreezeOutcome(e, freeze) ==
    IF e.next_start_time = None THEN "skipped"
    ELSE IF e.observation = None THEN "unset"
    ELSE freeze

\* reset has run from e to b, where it waits or an exception has left it: an
\* exception ends the handler, and the constructor if reset was called there
EnterReset(e, b, freeze) ==
    [b EXCEPT !.h.freeze = FreezeOutcome(e, freeze),
              !.h.before = Some(Snapshot(e)),
              !.pc = IF b.last.raised = "" THEN @
                     ELSE IF e.in_init THEN "failed" ELSE "ready",
              !.error = IF b.last.raised # "" /\ e.in_init
                        THEN b.last.raised ELSE @,
              !.in_init = IF b.last.raised = "" THEN @ ELSE FALSE]

\* reset is entered: it runs to utils.sleep_until, or, if an exception leaves
\* it, ends there
StartReset(e, freeze, clock) == EnterReset(e, reset_freeze(e, freeze), freeze)

\* reset runs from utils.sleep_until's return to its end
FinishReset(e, rin, clock) ==
    [reset_finish(e, rin, clock) EXCEPT
        !.pc = "ready", !.in_init = FALSE,
        !.h = [@ EXCEPT !.resets = @ + 1, !.steps_in_episode = 0,
                        !.prev_target = None, !.target = None,
                        !.action = None, !.obs = <<>>,
                        !.slept = \/ e.next_start_time = None
                                  \/ clock >= Val(e.next_start_time)]]

\* reset entered as b: it goes on to its end unless it waits or has ended
ContinueReset(b, rin, clock) ==
    IF b.last.raised # "" \/ b.pc = "sleeping" THEN b
    ELSE FinishReset(b, rin, clock)

\* reset from its call to its return, or to utils.sleep_until if it waits
\* there (not called when an exception has left __init__ before)
RunReset(e, rin, clock) ==
    IF e.pc = "failed" THEN e
    ELSE ContinueReset(StartReset(e, rin.freeze, clock), rin, clock)

\* __init__ up to its last line, the call of reset()
init(e, control_rate_s, time_step_s, smoothing_params, synchronize, clock) ==
    SetupSynchronization(
        SetupSmoothing(
            SetupControlRate([e EXCEPT !.in_init = TRUE, !.h.born = Some(clock)],
                             control_rate_s, time_step_s),
            smoothing_params),
        synchronize, clock)

\* _compute_reward ending the episode at the goal
compute_reward_done_at_goal(e, observation, goal) ==
    LET distance_to_goal ==
            compute_distance(forward_kinematics(observation.joint_positions), goal)
    IN  [reward |-> (-distance_to_goal) * Val(e.steps_per_control),
         done |-> distance_to_goal = 0]

\* _compute_reward without the factor steps_per_control
compute_reward_unscaled(e, observation, goal) ==
    LET distance_to_goal ==
            compute_distance(forward_kinematics(observation.joint_positions), goal)
    IN  [reward |-> -distance_to_goal, done |-> FALSE]

\* _compute_reward
compute_reward(e, observation, goal) ==
    LET joint_positions == observation.joint_positions
        end_effector_positions == forward_kinematics(joint_positions)
        distance_to_goal == compute_distance(end_effector_positions, goal)
        reward == -distance_to_goal
        done == FALSE
    IN  [reward |-> reward * Val(e.steps_per_control), done |-> done]

\* step, "smooth the action": the new smoothed action
smooth(e, unscaled_action) ==
    LET previous == IF e.smoothed_action = None THEN unscaled_action
                    ELSE Val(e.smoothed_action)
        alpha == Val(e.smoothing_alpha)
    IN  FAdd(FMul(alpha, previous),
             FMul(FSub(FromInt(1), alpha), unscaled_action))

\* the control loop keeping the observation of the last substep as the state
control_loop_last_state(e, target, obs) ==
    LET n == Val(e.steps_per_control)
    IN  [calls |-> [i \in 1..(2 * n) |->
                      IF i % 2 = 1
                      THEN Call("append_desired_action", Some(target),
                                Some(e.t + (i + 1) \div 2))
                      ELSE Call("get_observation", Some(e.t + i \div 2),
                                Some(obs[i \div 2]))],
         state |-> IF n >= 1 THEN Some(obs[n]) ELSE None,
         observation |-> IF n >= 1 /\ Val(e.synchronize)
                         THEN Some(obs[n]) ELSE e.observation,
         t |-> e.t + Max(n, 0)]

\* step, "the control loop": obs[i] is the joint position the robot reports
\* for substep i.  The calls, and the position the returned state is built from
control_loop(e, target, obs) ==
    LET n == Val(e.steps_per_control)
    IN  [calls |-> [i \in 1..(2 * n) |->
                      IF i % 2 = 1
                      THEN Call("append_desired_action", Some(target),
                                Some(e.t + (i + 1) \div 2))
                      ELSE Call("get_observation", Some(e.t + i \div 2),
                                Some(obs[i \div 2]))],
         state |-> IF n >= 1 THEN Some(obs[1]) ELSE None,
         observation |-> IF n >= 1 /\ Val(e.synchronize)
                         THEN Some(obs[n]) ELSE e.observation,
         t |-> e.t + Max(n, 0)]

\* step, its return: the state, the reward for it, done and info
step_return(e, calls, state, rd) ==
    [e EXCEPT !.last =
        [op |-> "step", raised |-> "", calls |-> calls,
         ret |-> Some([observation |-> state,
                       reward |-> rd.reward,
                       done |-> rd.done,
                       info |-> [is_success |-> IF rd.done THEN 1 ELSE 0]])]]

\* step, after the control loop, for the state it kept
step_reward(e, calls, state) ==
    step_return(e, calls, state, compute_reward(e, state, Val(e.goal)))

\* step, after the control loop; with state None _compute_reward raises when
\* it subscripts it
step_after_loop(e, smoothed_action, loop) ==
    IF loop.state = None
    THEN [e EXCEPT !.observation = loop.observation, !.t = loop.t,
                   !.last = [op |-> "step", raised |-> "TypeError",
                             calls |-> loop.calls, ret |-> None]]
    ELSE step_reward([e EXCEPT !.observation = loop.observation, !.t = loop.t],
                     loop.calls,
                     get_state(e, Val(loop.state), smoothed_action))

\* step, from the control loop on, for the smoothed action computed
step_smoothed(e, smoothed_action, obs) ==
    step_after_loop([e EXCEPT !.smoothed_action = Some(smoothed_action)],
                    smoothed_action, control_loop(e, smoothed_action, obs))

\* step
step(e, unscaled_action, obs) ==
    step_smoothed(e, smooth(e, unscaled_action), obs)

\* the history after a step() from e to e1
RecordStep(e, e1, unscaled_action, obs) ==
    [e1 EXCEPT
        !.h = [@ EXCEPT !.steps_in_episode = @ + 1,
                        !.prev_target = e.h.target,
                        !.target = IF e1.last.calls # <<>>
                                   THEN e1.last.calls[1].arg ELSE None,
                        !.action = Some(unscaled_action),
                        !.obs = obs,
                        !.before = Some(Snapshot(e))]]

\* step with the history kept
TrackedStep(e, unscaled_action, obs, clock) ==
    RecordStep(e, step(e, unscaled_action, obs), unscaled_action, obs)

(***************************************************************************)
(* The operations of a process, as actions.                                *)
(***************************************************************************)

\* p constructs its environment
CallInit(p, control_rate_s, time_step_s, smoothing_params, synchronize, rin) ==
    /\ env[p].pc = "new"
    /\ env' = [env EXCEPT ![p] =
                  RunReset(init(env[p], control_rate_s, time_step_s,
                                smoothing_params, synchronize, now),
                           rin, now)]
    /\ UNCHANGED <<now, connected, objects, lastDel>>

\* p calls reset(), while it has run fewer than max_episodes episodes
CallReset(p, rin, max_episodes) ==
    /\ env[p].pc = "ready"
    /\ Val(env[p].episode_count) < max_episodes
    /\ env' = [env EXCEPT ![p] = RunReset(env[p], rin, now)]
    /\ UNCHANGED <<now, connected, objects, lastDel>>

\* utils.sleep_until returns in p, and its reset() runs to the end
WakeUp(p, rin) ==
    /\ env[p].pc = "sleeping"
    /\ sleep_until(now, Val(env[p].next_start_time))
    /\ env' = [env EXCEPT ![p] = FinishReset(env[p], rin, now)]
    /\ UNCHANGED <<now, connected, objects, lastDel>>

\* the wall clock advances
Tick(seconds, max_clock) ==
    /\ now + seconds <= max_clock
    /\ now' = now + seconds
    /\ UNCHANGED <<env, connected, objects, lastDel>>

\* p calls step(action), at most max_steps times an episode; unscaled_action
\* is utils.unscale(action, ...)
CallStep(p, unscaled_action, obs, max_steps) ==
    /\ env[p].pc = "ready"
    /\ env[p].h.steps_in_episode < max_steps
    /\ env' = [env EXCEPT ![p] = TrackedStep(env[p], unscaled_action, obs, now)]
    /\ UNCHANGED <<now, connected, objects, lastDel>>

\* every sequence of n joint positions out of S
ObsSeqs(S, n) == [1..n -> S]

(***************************************************************************)
(* SpecSmoothing: one process, the smoothing schedule over the episodes.   *)
(***************************************************************************)
MaxNumEpisodes == 6
MaxEpisodes == 7
MaxSteps == 2

Fractions == {FZero, Dec(1, 2), FromInt(1)}
Alphas == {Dec(23, 100), Dec(3, 10), Dec(9, 10), FromInt(1)}
Actions == {Dec(1, 10), Dec(13, 10)}

SmoothingConfigs ==
    [num_episodes : 1..MaxNumEpisodes, start_after : Fractions,
     stop_after : Fractions, final_alpha : Alphas, is_test : {FALSE}]

DefaultTimeStep == Dec(4, 1000)
DefaultResetIn == [freeze |-> "ok", start |-> 0, goal_joint |-> 0]

NoObjects ==
    /\ connected = <<>>
    /\ objects = <<>>
    /\ lastDel = None

InitSmoothing ==
    /\ env = [p \in {1} |-> NewEnv]
    /\ now = 0
    /\ NoObjects

NextSmoothing ==
    \/ /\ env[1].pc = "new"
       /\ \E sp \in SmoothingConfigs :
             CallInit(1, DefaultTimeStep, DefaultTimeStep, sp, FALSE,
                      DefaultResetIn)
    \/ CallReset(1, DefaultResetIn, MaxEpisodes)
    \/ \E u \in Actions :
          CallStep(1, u, [i \in 1..Val(env[1].steps_per_control) |-> 0], MaxSteps)

SpecSmoothing == InitSmoothing /\ [][NextSmoothing]_vars
(***************************************************************************)
(* The smoothing schedule                                                  *)
(***************************************************************************)
Built(p) == env[p].pc = "ready"

\* p was built without is_test
Scheduled(p) == Built(p) /\ ~Val(env[p].smoothing_params).is_test

Alpha(p) == Val(env[p].smoothing_alpha)
FinalAlpha(p) == Val(env[p].smoothing_params).final_alpha
StopEpisode(p) == Val(env[p].smoothing_stop_episode).n
StartEpisode(p) == Val(env[p].smoothing_start_episode)
AfterResetOf(p) == env[p].last.op = "reset"
AlphaBefore(p) == Val(Val(env[p].h.before).smoothing_alpha)
CountBefore(p) == Val(Val(env[p].h.before).episode_count)

AlphaNonDecreasing(p) == AfterResetOf(p) => FLe(AlphaBefore(p), Alpha(p))
AlphaHeld(p) ==
    AfterResetOf(p) /\ CountBefore(p) >= StopEpisode(p)
        => Alpha(p) = AlphaBefore(p)
AlphaFinal(p) ==
    Val(env[p].episode_count) >= StopEpisode(p) => Alpha(p) = FinalAlpha(p)

ScheduleRequested(p) ==
    /\ env[p].pc # "new"
    /\ env[p].smoothing_params # None
    /\ ~Val(env[p].smoothing_params).is_test
    /\ FLe(Val(env[p].smoothing_params).start_after,
           Val(env[p].smoothing_params).stop_after)

AlphaInRange(p) == FLe(FZero, Alpha(p)) /\ FLe(Alpha(p), FinalAlpha(p))

\* C12: for a configuration without is_test with num_episodes >= 1,
\* final_alpha in [0, 1] and 0 <= start_after <= stop_after <= 1, no exception
\* leaves the constructor, and the smoothing coefficient is at least 0 and at
\* most final_alpha in every state.
C12_ConstructedWithAlphaInRange ==
    \A p \in DOMAIN env :
        ScheduleRequested(p) => env[p].pc # "failed" /\ AlphaInRange(p)

(***************************************************************************)
(* The smoothed action                                                     *)
(***************************************************************************)
\* the last handler of p was a step() that commanded a target
Commanded(p) == env[p].last.op = "step" /\ env[p].h.target # None

Target(p) == Val(env[p].h.target)
UnscaledAction(p) == Val(env[p].h.action)
FirstStep(p) == env[p].h.steps_in_episode = 1

\* alpha * previous + (1 - alpha) * unscaled_action, in binary64
Blend(alpha, previous, unscaled_action) ==
    FAdd(FMul(alpha, previous), FMul(FSub(FromInt(1), alpha), unscaled_action))

\* C10, as stated: the first step() after a reset() commands exactly the
\* unscaled action, whatever alpha is.
C10_FirstStepCommandsUnscaledAction ==
    \A p \in DOMAIN env :
        Commanded(p) /\ FirstStep(p) => Target(p) = UnscaledAction(p)

\* C10, amended: step() commands alpha * previous + (1 - alpha) * unscaled_action
\* in double precision, where previous is the target of the preceding step() of
\* the episode and, on the first step() after a reset(), the unscaled action
\* itself; that first target is the unscaled action exactly when alpha is 0 or 1.
C10_StepCommandsBlend ==
    \A p \in DOMAIN env :
        Commanded(p) =>
            /\ Target(p) = Blend(Alpha(p),
                                 IF FirstStep(p) THEN UnscaledAction(p)
                                 ELSE Val(env[p].h.prev_target),
                                 UnscaledAction(p))
            /\ FirstStep(p) /\ Alpha(p) \in {FZero, FromInt(1)}
                   => Target(p) = UnscaledAction(p)

\* a second step() of an episode blends two different actions, alpha in (0, 1)
C10_Witness ==
    \E p \in DOMAIN env :
        /\ Commanded(p) /\ ~FirstStep(p)
        /\ env[p].h.resets >= 2
        /\ FLt(FZero, Alpha(p)) /\ FLt(Alpha(p), FromInt(1))
        /\ Val(env[p].h.prev_target) # UnscaledAction(p)
        /\ Target(p) # UnscaledAction(p)

(***************************************************************************)
(* SpecControl: one process, the control rate and the control loop.        *)
(***************************************************************************)
MaxSubsteps == 2
MaxPos == 1
MaxControlEpisodes == 2
MaxControlSteps == 1

Positions == 0..MaxPos
TimeSteps == {Dec(1, 1000), Dec(4, 1000), Dec(1, 256)}
Offsets == {FZero, Dec(5, 10000000), FNeg(Dec(5, 10000000)),
            Dec(1, 1000000), Dec(2, 1000000), FNeg(Dec(2, 1000000))}

\* the control periods tried with a time step: near each multiple of it
ControlRates(ts) ==
    {FAdd(FMul(FromInt(k), ts), d) : k \in 0..MaxSubsteps, d \in Offsets}

\* periods written as decimal literals, one microsecond off three time steps
LiteralRates ==
    {<<Dec(30001, 1000000), Dec(1, 100)>>, <<Dec(14999, 1000000), Dec(5, 1000)>>}

\* the <<control period, time step>> pairs tried
RateCases ==
    UNION {{<<c, ts>> : c \in ControlRates(ts)} : ts \in TimeSteps}
        \cup LiteralRates

ControlAction == Dec(3, 10)

TestSmoothing ==
    [num_episodes |-> 1, start_after |-> FZero, stop_after |-> FZero,
     final_alpha |-> Dec(1, 2), is_test |-> TRUE]

ResetIns == [freeze : {"ok"}, start : {0}, goal_joint : Positions]

InitControl ==
    /\ env = [p \in {1} |-> NewEnv]
    /\ now = 0
    /\ NoObjects

NextControl ==
    \/ /\ env[1].pc = "new"
       /\ \E rc \in RateCases : \E rin \in ResetIns :
             CallInit(1, rc[1], rc[2], TestSmoothing, FALSE, rin)
    \/ \E rin \in ResetIns : CallReset(1, rin, MaxControlEpisodes)
    \/ /\ env[1].pc = "ready"
       /\ \E obs \in ObsSeqs(Positions, Val(env[1].steps_per_control)) :
             CallStep(1, ControlAction, obs, MaxControlSteps)

SpecControl == InitControl /\ [][NextControl]_vars

(***************************************************************************)
(* Exact arithmetic on the values of floats, to state what a claim says of *)
(* the real numbers.                                                       *)
(***************************************************************************)
\* the value of the nonzero float x is Scaled(x, e0) * 2^e0, for e0 <= x.e
Scaled(x, e0) == IF FIsZero(x) THEN <<>> ELSE BShl(x.m, x.e - e0)

LowExp(x, y) ==
    IF FIsZero(x) THEN y.e ELSE IF FIsZero(y) THEN x.e ELSE Min(x.e, y.e)

\* c = k * ts, for k >= 0
IsExactMultiple(c, k, ts) ==
    /\ c.s = 0
    /\ Scaled(c, LowExp(c, ts)) = BMulSmall(Scaled(ts, LowExp(c, ts)), k)

\* |c - n * ts| > tol, for ts > 0 and tol > 0
ExactlyOff(c, n, ts, tol) ==
    LET e0 == LowExp(c, ts)
        C == Scaled(c, e0)
        T == BMulSmall(Scaled(ts, e0), IF n >= 0 THEN n ELSE -n)
        sameSign == (c.s = 0) = (n >= 0) \/ C = <<>> \/ T = <<>>
        D == IF ~sameSign THEN BAdd(C, T)
             ELSE IF BCmp(C, T) >= 0 THEN BSub(C, T) ELSE BSub(T, C)
        e1 == Min(e0, tol.e)
    IN  BCmp(BShl(D, e0 - e1), BShl(tol.m, tol.e - e1)) > 0

Constructed(p) == env[p].pc # "new"
ControlRate(p) == Val(env[p].control_rate_s)
TimeStep(p) == Val(env[p].time_step_s)
StepsPerControl(p) == Val(env[p].steps_per_control)

\* C5: when the control period is exactly k physics time steps, k >= 1,
\* construction succeeds with steps_per_control = k.
C5_ExactMultipleGivesK ==
    \A p \in DOMAIN env : \A k \in 1..(MaxSubsteps + 1) :
        Constructed(p) /\ IsExactMultiple(ControlRate(p), k, TimeStep(p))
            => Built(p) /\ StepsPerControl(p) = k

\* a period of exactly two time steps of 0.004 s, which no float division of
\* the two would have to round for
C5_Witness ==
    \E p \in DOMAIN env :
        /\ Built(p)
        /\ TimeStep(p) = Dec(4, 1000)
        /\ IsExactMultiple(ControlRate(p), 2, TimeStep(p))
        /\ StepsPerControl(p) = 2

\* no episode state of p has been set up and no reset() has run
NoEpisodeState(p) ==
    /\ env[p].episode_count = None
    /\ env[p].smoothed_action = None
    /\ env[p].smoothing_alpha = None
    /\ env[p].goal = None
    /\ env[p].h.resets = 0
    /\ env[p].last = NoLast

\* abs(control_rate_s - steps_per_control * time_step_s) > 0.000001, each
\* operation rounded to binary64
ComputedOff(c, n, ts, tol) == FLt(tol, FAbs(FSub(c, FMul(FromInt(n), ts))))

\* C6, amended: construction fails with an AssertionError, with no episode
\* state set up and before any reset(), exactly when
\* abs(control_rate_s - steps_per_control * time_step_s), evaluated in double
\* precision, exceeds 0.000001.
C6_AssertionIffComputedOff ==
    \A p \in DOMAIN env :
        Constructed(p) =>
            /\ env[p].error = "AssertionError"
                 <=> ComputedOff(ControlRate(p), StepsPerControl(p), TimeStep(p),
                                 Tolerance)
            /\ env[p].error = "AssertionError"
                 => env[p].pc = "failed" /\ NoEpisodeState(p)

\* C6, as stated: construction fails with an AssertionError, with no episode
\* state set up and before any reset(), exactly when the control period is
\* further than 0.000001 from steps_per_control physics time steps.
C6_AssertionIffOffByTolerance ==
    \A p \in DOMAIN env :
        Constructed(p) =>
            /\ env[p].error = "AssertionError"
                 <=> ExactlyOff(ControlRate(p), StepsPerControl(p), TimeStep(p),
                                Tolerance)
            /\ env[p].error = "AssertionError"
                 => env[p].pc = "failed" /\ NoEpisodeState(p)

\* a construction that failed on a period 0.000002 s short of two time steps
C6_Witness ==
    \E p \in DOMAIN env :
        /\ env[p].pc = "failed" /\ env[p].error = "AssertionError"
        /\ StepsPerControl(p) = 2
        /\ ControlRate(p).s = 0
        /\ FLt(ControlRate(p), FMul(FromInt(2), TimeStep(p)))

(***************************************************************************)
(* step()                                                                  *)
(***************************************************************************)
Stepped(p) == env[p].last.op = "step"
Returned(p) == env[p].last.raised = ""
Ret(p) == Val(env[p].last.ret)
Calls(p) == env[p].last.calls
Obs(p) == env[p].h.obs

\* the distance of the finger tip to the goal at substep i of the last step()
DistanceAt(p, i) ==
    compute_distance(forward_kinematics(Obs(p)[i]), Val(env[p].goal))

RECURSIVE SumDistances(_, _)
SumDistances(p, n) == IF n <= 0 THEN 0 ELSE DistanceAt(p, n) + SumDistances(p, n - 1)

\* C2: every step() returns done = False and info["is_success"] = 0.
C2_NeverDone ==
    \A p \in DOMAIN env :
        Stepped(p) /\ Returned(p)
            => Ret(p).done = FALSE /\ Ret(p).info.is_success = 0

\* a step() whose finger tip is at the goal at every substep
C2_Witness ==
    \E p \in DOMAIN env :
        /\ Stepped(p) /\ Returned(p)
        /\ StepsPerControl(p) >= 2
        /\ \A i \in 1..StepsPerControl(p) : DistanceAt(p, i) = 0
        /\ Ret(p).reward = 0

\* C7, as stated: the reward is minus the sum over the substeps of the
\* distance of the finger tip to the goal at that substep.
C7_RewardIsSumOverSubsteps ==
    \A p \in DOMAIN env :
        Stepped(p) /\ Returned(p)
            => Ret(p).reward = -SumDistances(p, StepsPerControl(p))

\* C7, amended: the reward is minus steps_per_control times the distance of
\* the finger tip to the goal at the first substep.
C7_RewardIsFirstDistanceScaled ==
    \A p \in DOMAIN env :
        Stepped(p) /\ Returned(p)
            => Ret(p).reward = -(StepsPerControl(p) * DistanceAt(p, 1))

\* a step() of two substeps that starts off the goal and ends on it
C7_Witness ==
    \E p \in DOMAIN env :
        /\ Stepped(p) /\ Returned(p)
        /\ StepsPerControl(p) = 2
        /\ DistanceAt(p, 1) > 0 /\ DistanceAt(p, 2) = 0
        /\ Ret(p).reward < 0

\* C8: a step() issues steps_per_control append_desired_action calls, all
\* with the smoothed action of this step, each followed by the get_observation
\* of the time index it returned before the next is issued; the observation
\* step() returns is the one read after the first substep.
C8_ControlLoop ==
    \A p \in DOMAIN env :
        Stepped(p) =>
            /\ Len(Calls(p)) = 2 * Max(StepsPerControl(p), 0)
            /\ \A i \in 1..StepsPerControl(p) :
                  /\ Calls(p)[2 * i - 1].op = "append_desired_action"
                  /\ Calls(p)[2 * i - 1].arg = env[p].smoothed_action
                  /\ Calls(p)[2 * i - 1].ret = Some(Val(env[p].h.before).t + i)
                  /\ Calls(p)[2 * i].op = "get_observation"
                  /\ Calls(p)[2 * i].arg = Calls(p)[2 * i - 1].ret
                  /\ Calls(p)[2 * i].ret = Some(Obs(p)[i])
            /\ Returned(p) =>
                  Ret(p).observation.joint_positions = Val(Calls(p)[2].ret)

\* a step() of two substeps whose two observations differ
C8_Witness ==
    \E p \in DOMAIN env :
        /\ Stepped(p) /\ Returned(p)
        /\ StepsPerControl(p) = 2
        /\ Obs(p)[1] # Obs(p)[2]
        /\ Ret(p).observation.joint_positions = Obs(p)[1]

(***************************************************************************)
(* Two training processes with episode starts synchronized on wall time.   *)
(***************************************************************************)

Procs == {1, 2}
MaxSyncEpisodes == 2
MaxSyncSteps == 1
MaxTicks == 3
TickSeconds == 1 + 4
StartClock == (58 * SecondsPerMinute) + 50

SyncAction == Dec(3, 10)
SyncResetIns == [freeze : {"ok", "append", "get"}, start : {0}, goal_joint : {0}]
WakeIns == [freeze : {"ok"}, start : {0}, goal_joint : {0}]

\* the first process synchronizes, the others may
SyncChoices(p) == IF p = 1 THEN {TRUE} ELSE BOOLEAN

InitSync ==
    /\ env = [p \in Procs |-> NewEnv]
    /\ now = StartClock
    /\ NoObjects

NextSync ==
    \/ \E p \in Procs : \E synchronize \in SyncChoices(p) : \E rin \in WakeIns :
          CallInit(p, DefaultTimeStep, DefaultTimeStep, TestSmoothing,
                   synchronize, rin)
    \/ \E p \in Procs : \E rin \in SyncResetIns :
          CallReset(p, rin, MaxSyncEpisodes)
    \/ \E p \in Procs : \E rin \in WakeIns : WakeUp(p, rin)
    \/ \E p \in Procs : CallStep(p, SyncAction, <<0>>, MaxSyncSteps)
    \/ Tick(TickSeconds, StartClock + MaxTicks * TickSeconds)

SpecSync == InitSync /\ [][NextSync]_vars

\* the last handler of p is a reset() entered with next_start_time set
SyncReset(p) ==
    /\ env[p].last.op = "reset"
    /\ env[p].h.before # None
    /\ Val(env[p].h.before).next_start_time # None

\* what that reset() started from
StartTime(p) == Val(Val(env[p].h.before).next_start_time)
EpisodesBefore(p) == Val(Val(env[p].h.before).episode_count)

\* the freeze-in-place step of p's last reset() failed: the robot proxy raised
\* in one of its two calls, or no observation was stored
FreezeFailed(p) == env[p].h.freeze \in {"unset", "append", "get"}

\* p's last reset() has called utils.sleep_until(t), its last call, which has
\* not returned
WaitsUntil(p, t) ==
    /\ env[p].pc = "sleeping"
    /\ Calls(p) # <<>>
    /\ Calls(p)[Len(Calls(p))] = Call("sleep_until", Some(t), None)

\* p's last reset() ran to its end after the clock reached t, as a reset()
\* does: one more episode, no smoothed action, an observation returned
CompletedAfter(p, t) ==
    /\ env[p].pc = "ready"
    /\ env[p].h.slept
    /\ env[p].last.ret # None
    /\ env[p].episode_count = Some(EpisodesBefore(p) + 1)
    /\ env[p].smoothed_action = None
    /\ env[p].next_start_time = Some(t + SyncPeriod)

\* C4: in a reset() with synchronization active whose freeze-in-place step
\* failed, no exception leaves reset(): it waits in utils.sleep_until for
\* next_start_time and, once the clock has reached it, completes normally and
\* returns an observation.
C4_FreezeFailureSwallowed ==
    \A p \in DOMAIN env :
        (SyncReset(p) /\ FreezeFailed(p)) =>
            /\ Returned(p)
            /\ WaitsUntil(p, StartTime(p)) \/ CompletedAfter(p, StartTime(p))

C4_Witness ==
    /\ \E p \in DOMAIN env :
          /\ SyncReset(p) /\ env[p].h.freeze = "get"
          /\ Val(env[p].h.before).observation # None
          /\ CompletedAfter(p, StartTime(p))
    /\ \E p \in DOMAIN env :
          /\ SyncReset(p) /\ Val(env[p].h.before).observation = None
          /\ CompletedAfter(p, StartTime(p))

\* p and q were constructed within the same wall-clock minute
SameMinute(p, q) ==
    /\ env[p].h.born # None
    /\ env[q].h.born # None
    /\ Val(env[p].h.born) \div SecondsPerMinute
          = Val(env[q].h.born) \div SecondsPerMinute

Synchronized(p) ==
    env[p].pc \in {"sleeping", "ready"} /\ env[p].synchronize = Some(TRUE)

Unsynchronized(p) ==
    env[p].pc \in {"sleeping", "ready"} /\ env[p].synchronize = Some(FALSE)

\* C9: with synchronization, a reset() returns only once the clock has reached
\* the next_start_time it started from and leaves next_start_time exactly 4
\* seconds later, and two processes constructed within the same minute hold
\* the same next_start_time after the same number of resets; without
\* synchronization, reset() never waits and next_start_time stays unset.
C9_SynchronizedSchedule ==
    /\ \A p \in DOMAIN env :
          (Synchronized(p) /\ SyncReset(p)) =>
              /\ Returned(p)
              /\ WaitsUntil(p, StartTime(p)) \/ CompletedAfter(p, StartTime(p))
              /\ env[p].pc = "sleeping" =>
                    env[p].next_start_time = Some(StartTime(p))
    /\ \A p, q \in DOMAIN env :
          (/\ Synchronized(p) /\ Synchronized(q)
           /\ SameMinute(p, q)
           /\ env[p].h.resets = env[q].h.resets)
              => env[p].next_start_time = env[q].next_start_time
    /\ \A p \in DOMAIN env :
          Unsynchronized(p) =>
              /\ env[p].next_start_time = None
              /\ env[p].pc # "sleeping"
              /\ \A i \in 1..Len(Calls(p)) : Calls(p)[i].op # "sleep_until"

C9_Witness ==
    \E p, q \in DOMAIN env :
        /\ Synchronized(p) /\ Synchronized(q)
        /\ SameMinute(p, q)
        /\ env[p].h.born # env[q].h.born
        /\ env[p].h.resets = 2 /\ env[q].h.resets = 2
        /\ env[p].last.op = "reset" /\ env[q].last.op = "reset"
        /\ env[p].next_start_time = env[q].next_start_time

(***************************************************************************)
(* Construction with synchronization at any time of the hour               *)
(***************************************************************************)
\* p's constructor got as far as "set up synchronization", with synchronize
ConstructedSynchronized(p) ==
    env[p].pc # "new" /\ env[p].synchronize = Some(TRUE)

\* the start of the minute following `clock`
NextMinute(clock) == ((clock \div SecondsPerMinute) + 1) * SecondsPerMinute

\* C11: whatever the wall-clock time at which an environment is constructed
\* with synchronize=True, no exception leaves the constructor and the schedule
\* starts at the start of the minute following the time of construction:
\* next_start_time is that instant, plus 4 seconds per reset() completed.
C11_SynchronizedConstructionSucceeds ==
    \A p \in DOMAIN env :
        ConstructedSynchronized(p) =>
            /\ env[p].pc # "failed"
            /\ env[p].next_start_time =
                   Some(NextMinute(Val(env[p].h.born))
                        + SyncPeriod * env[p].h.resets)


(***************************************************************************)
(* collision_objects.py: objects in a pybullet simulation.                 *)
(***************************************************************************)

\* a collision object whose __init__ has not run
NewObject(kind) ==
    [kind |-> kind, pybullet_client_id |-> None, object_id |-> None,
     raised |-> "", alive |-> TRUE]

\* BaseCollisionObject.__init__
BaseCollisionObject_init(o, pybullet_client_id) ==
    [o EXCEPT !.pybullet_client_id = Some(pybullet_client_id)]

\* Cuboid.__init__.  body is the id pybullet gives the new body; fails says
\* where a pybullet call raises: "before_body" (createCollisionShape,
\* createVisualShape or createMultiBody), "after_body" (changeDynamics) or
\* "none"; on a client that is not connected the first call raises
Cuboid_init(o, pybullet_client_id, isConnected, fails, body) ==
    LET o1 == BaseCollisionObject_init(o, pybullet_client_id)
    IN  IF ~isConnected \/ fails = "before_body"
        THEN [o1 EXCEPT !.raised = "pybullet.error"]
        ELSE IF fails = "after_body"
        THEN [o1 EXCEPT !.object_id = Some(body), !.raised = "pybullet.error"]
        ELSE [o1 EXCEPT !.object_id = Some(body)]

\* Cube.__init__
Cube_init(o, pybullet_client_id, isConnected, fails, body) ==
    Cuboid_init(o, pybullet_client_id, isConnected, fails, body)

\* ColoredCubeV2.__init__: its only pybullet call is loadURDF
ColoredCubeV2_init(o, pybullet_client_id, isConnected, fails, body) ==
    LET o1 == [o EXCEPT !.pybullet_client_id = Some(pybullet_client_id)]
    IN  IF ~isConnected \/ fails # "none"
        THEN [o1 EXCEPT !.raised = "pybullet.error"]
        ELSE [o1 EXCEPT !.object_id = Some(body)]

\* __del__ without the isConnected test: pybullet.removeBody raises on a
\* client that is not connected
del_unguarded(o, isConnected) ==
    IF o.object_id = None
    THEN [calls |-> <<>>, raised |-> "AttributeError"]
    ELSE [calls |-> <<Call("removeBody",
                           <<Val(o.object_id), Val(o.pybullet_client_id)>>,
                           None)>>,
          raised |-> IF isConnected THEN "" ELSE "pybullet.error"]

\* BaseCollisionObject.__del__: the pybullet calls it makes and the exception
\* it ends with.  isConnected is pybullet.isConnected(self._pybullet_client_id)
del(o, isConnected) ==
    IF ~isConnected
    THEN [calls |-> <<>>, raised |-> ""]
    ELSE IF o.object_id = None
    THEN [calls |-> <<>>, raised |-> "AttributeError"]
    ELSE [calls |-> <<Call("removeBody",
                           <<Val(o.object_id), Val(o.pybullet_client_id)>>,
                           None)>>,
          raised |-> ""]

\* pybullet.connect gives client c
Connect(c) ==
    /\ ~connected[c]
    /\ connected' = [connected EXCEPT ![c] = TRUE]
    /\ UNCHANGED <<env, now, objects, lastDel>>

\* pybullet.disconnect(c)
Disconnect(c) ==
    /\ connected[c]
    /\ connected' = [connected EXCEPT ![c] = FALSE]
    /\ UNCHANGED <<env, now, objects, lastDel>>

\* an object of class kind is created on client c, while fewer than
\* max_objects have been
CreateObject(kind, c, fails, max_objects) ==
    /\ Len(objects) < max_objects
    /\ LET o == NewObject(kind)
           body == Len(objects) + 1
           made == CASE kind = "Cuboid" ->
                            Cuboid_init(o, c, connected[c], fails, body)
                     [] kind = "Cube" ->
                            Cube_init(o, c, connected[c], fails, body)
                     [] OTHER ->
                            ColoredCubeV2_init(o, c, connected[c], fails, body)
       IN  objects' = Append(objects, made)
    /\ UNCHANGED <<env, now, connected, lastDel>>

\* object i is torn down: the interpreter calls its __del__
DeleteObject(i) ==
    /\ objects[i].alive
    /\ LET o == objects[i]
           isConnected == connected[Val(o.pybullet_client_id)]
           done == del(o, isConnected)
       IN  /\ objects' = [objects EXCEPT ![i].alive = FALSE]
           /\ lastDel' = Some([object |-> i, isConnected |-> isConnected,
                               calls |-> done.calls, raised |-> done.raised])
    /\ UNCHANGED <<env, now, connected>>

MaxObjects == 2
MaxClient == 1
Clients == 0..MaxClient
Kinds == {"Cuboid", "Cube", "ColoredCubeV2"}
InitFailures == {"none", "before_body", "after_body"}

InitObjects ==
    /\ env = <<>>
    /\ now = 0
    /\ connected = [c \in Clients |-> FALSE]
    /\ objects = <<>>
    /\ lastDel = None

NextObjects ==
    \/ \E c \in Clients : Connect(c)
    \/ \E c \in Clients : Disconnect(c)
    \/ \E kind \in Kinds : \E c \in Clients : \E fails \in InitFailures :
          CreateObject(kind, c, fails, MaxObjects)
    \/ \E i \in 1..Len(objects) : DeleteObject(i)

SpecObjects == InitObjects /\ [][NextObjects]_vars

\* the object the last teardown was of
Deleted == objects[Val(lastDel).object]

\* C3: the teardown of a collision object calls removeBody only while its
\* client is connected, and then for its own body on its own client; on a
\* client that has disconnected it makes no pybullet call and raises nothing.
C3_TeardownGuarded ==
    lastDel # None =>
        LET d == Val(lastDel)
        IN  /\ \A k \in 1..Len(d.calls) :
                  /\ d.calls[k].op = "removeBody"
                  /\ d.isConnected
                  /\ Deleted.object_id # None
                  /\ d.calls[k].arg = <<Val(Deleted.object_id),
                                        Val(Deleted.pybullet_client_id)>>
            /\ ~d.isConnected => (d.calls = <<>> /\ d.raised = "")

C3_Witness ==
    /\ lastDel # None
    /\ ~Val(lastDel).isConnected
    /\ Deleted.kind = "ColoredCubeV2"
    /\ Deleted.object_id # None
    /\ Val(lastDel).calls = <<>>
    /\ \E i \in 1..Len(objects) :
          objects[i].kind = "Cube" /\ ~objects[i].alive /\ i # Val(lastDel).object

=============================================================================
